---- MODULE Spec2Model ----
(***************************************************************************)
(* CenterNetPipeline (networks/classes/centernet/Pipeline.py) and the      *)
(* ModelCenterNet wrapper (networks/classes/centernet/models/              *)
(* ModelCenterNet.py) as a state machine.                                  *)
(*                                                                         *)
(* A caller owns one pipeline object and one process.  It calls the four   *)
(* stages of the pipeline, or the public methods of ModelCenterNet         *)
(* directly, one call after the other.  A stage call is a sequence of      *)
(* steps (pc); `log` is the ordered list of the things the current call    *)
(* has done so far, `outcome` says how it ended.  Exceptions go back to    *)
(* the caller, sys.exit ends the process.  When a call has ended (pc =     *)
(* "done") the caller takes its result and the frame of the call is gone   *)
(* (pc = "idle"); what stays is the pipeline object and the disk.          *)
(*                                                                         *)
(* Values that Python leaves optional are sequences of length 0 or 1:      *)
(* <<>> is None, <<v>> is the value v.  Text is a sequence of characters   *)
(* (file names: a sequence of tokens), so that formatting, parsing and     *)
(* glob matching are computed and not assumed.                             *)
(***************************************************************************)
EXTENDS Integers, Sequences, FiniteSets, TLC

VARIABLES
    dataset_params,   \* self.__dataset_params, set in __init__
    dict_cat,         \* self.__dict_cat, the category vocabulary
    folder,           \* the weights folder on disk: [exists, entries]
    proc,             \* "alive" | "exited" (sys.exit was called)
    stage,            \* the operation of the current (or last) call
    pc,               \* position inside the current call; "idle" | "done" between calls
    model_params,     \* the caller's stage configuration (mutated in place by the merge)
    user_input,       \* <<>> or <<text>>: what input() returned in this call
    log,              \* what this call did, in order
    outcome,          \* "idle" | "running" | "returned" | an exception name
    decay,            \* local `decay` as handed to Adam: <<>> before, <<[num, den]>> after
    sizes,            \* <<>> or <<[ts, vs]>>: sizes of the training / validation sets
    test_list,        \* the test source of the stage: "unset" | "none" | "paths" | "regenerated" | "loaded"
    loaded,           \* <<>> or <<entry>>: the checkpoint model.load_weights was given
    fit_call,         \* <<>> or <<[steps_per_epoch, validation_steps]>>: arguments of model.fit
    eval_steps,       \* <<>> or <<steps argument of ModelCenterNet.evaluate>>
    n_category,       \* <<>> or <<n>>: category count of the model built in this call
    ret,              \* <<>> (None / nothing) or <<value>>: what the call returned
    bbox_predictions, \* the bbox_predictions argument of run_classification: <<>> or <<keys>>
    given_params,     \* the configuration of the call as the caller built it, before the merge
    produced          \* <<>> or <<vocabulary>>: what generate_dataset last gave run_preprocessing

vars == <<dataset_params, dict_cat, folder, proc, stage, pc, model_params, user_input,
          log, outcome, decay, sizes, test_list, loaded, fit_call, eval_steps,
          n_category, ret, bbox_predictions, given_params, produced>>

(***************************************************************************)
(* Bounds of the model                                                     *)
(***************************************************************************)
MaxSize == 24        \* largest dataset size drawn when the step formulas are applied
MaxBatch == 8        \* largest batch size drawn when the step formulas are applied
MaxEvalSteps == 3    \* largest step count handed to ModelCenterNet.evaluate directly

(***************************************************************************)
(* Optional values and Python's dict                                       *)
(***************************************************************************)
None == <<>>

Some(v) == <<v>>

\* dict.update(other): every key of both, other's value where both have the key
Update(d, other) ==
    [k \in (DOMAIN d) \cup (DOMAIN other) |-> IF k \in DOMAIN other THEN other[k] ELSE d[k]]

\* the dict d with d[k] = v added
With(d, k, v) == [x \in (DOMAIN d) \cup {k} |-> IF x = k THEN v ELSE d[x]]

\* Python's rule for binding a call made with keyword arguments only
Binds(required, optional, given) ==
    /\ required \subseteq given
    /\ given \subseteq (required \cup optional)

(***************************************************************************)
(* Text: str(int), float(str)                                              *)
(***************************************************************************)
Digits == <<"0", "1", "2", "3", "4", "5", "6", "7", "8", "9">>

DigitChars == {Digits[i] : i \in 1..Len(Digits)}

DigitVal(c) == (CHOOSE i \in 1..Len(Digits) : Digits[i] = c) - 1

\* str(n) for an int n >= 0
RECURSIVE Str(_)
Str(n) == IF n < 10 THEN <<Digits[n + 1]>> ELSE Str(n \div 10) \o <<Digits[(n % 10) + 1]>>

RECURSIVE Pow10(_)
Pow10(k) == IF k = 0 THEN 1 ELSE 10 * Pow10(k - 1)

\* the int spelled by a sequence of digit characters (0 for the empty sequence)
RECURSIVE IntOf(_)
IntOf(ds) ==
    IF ds = <<>> THEN 0
    ELSE 10 * IntOf(SubSeq(ds, 1, Len(ds) - 1)) + DigitVal(ds[Len(ds)])

IsDigit(c) == c \in DigitChars

IsDot(c) == c = "."

\* float(s) succeeds: digits with at most one point and at least one digit
\* (texts here hold no sign, exponent, blank, underscore, "inf" or "nan")
IsFloatText(s) ==
    /\ \A i \in 1..Len(s) : IsDigit(s[i]) \/ IsDot(s[i])
    /\ Len(SelectSeq(s, IsDot)) <= 1
    /\ Len(SelectSeq(s, IsDigit)) >= 1

\* float(s) as the fraction num/den
FloatOf(s) ==
    LET dots == {i \in 1..Len(s) : IsDot(s[i])}
        frac == IF dots = {} THEN 0 ELSE Len(s) - (CHOOSE i \in dots : TRUE)
    IN  [num |-> IntOf(SelectSeq(s, IsDigit)), den |-> Pow10(frac)]

Zero == [num |-> 0, den |-> 1]

(***************************************************************************)
(* Pipeline.py 176-183 / 317-326: the decay handed to Adam                 *)
(***************************************************************************)
\* [error, value]: model_params['decay'] raises KeyError when the key is
\* missing; only ValueError is caught
DecayOf(cfg) ==
    IF "decay" \notin DOMAIN cfg
    THEN [error |-> "KeyError", value |-> None]
    ELSE LET parsed == IF IsFloatText(cfg["decay"]) THEN Some(FloatOf(cfg["decay"])) ELSE None
         IN  [error |-> "",
              value |-> IF parsed # None /\ parsed[1].num # 0 THEN parsed ELSE Some(Zero)]

(***************************************************************************)
(* File names and glob                                                     *)
(***************************************************************************)
\* glob / fnmatch on a name, "*" the only special token of the patterns used
RECURSIVE GlobMatch(_, _)
GlobMatch(pat, name) ==
    IF pat = <<>> THEN name = <<>>
    ELSE IF Head(pat) = "*"
         THEN \/ GlobMatch(Tail(pat), name)
              \/ (name # <<>> /\ GlobMatch(pat, Tail(name)))
         ELSE /\ name # <<>>
              /\ Head(name) = Head(pat)
              /\ GlobMatch(Tail(pat), Tail(name))

PadBelow == 10

\* a restore that forgets the zero padding
EpochStrUnpadded(init_epoch) == Str(init_epoch)

\* ModelCenterNet.py 93
EpochStr(init_epoch) ==
    IF init_epoch < PadBelow THEN <<"0">> \o Str(init_epoch) ELSE Str(init_epoch)

\* ModelCenterNet.py 95: 'weights.{}-*.hdf5'
RestorePattern(init_epoch) ==
    <<"weights", ".">> \o EpochStr(init_epoch) \o <<"-", "*", ".", "hdf5">>

\* ModelCenterNet.py 96: glob.glob lists every entry whose name matches, file or not
GlobFolder(f, init_epoch) ==
    IF f.exists
    THEN {e \in f.entries : GlobMatch(RestorePattern(init_epoch), e.name)}
    ELSE {}

\* ModelCenterNet.py 97-107: [error, loaded] for list_files[0] = first
RestoreOutcome(matches, first) ==
    IF matches = {} THEN [error |-> "AssertionError", loaded |-> None]
    ELSE IF first.kind # "file" THEN [error |-> "AssertionError", loaded |-> None]
    ELSE [error |-> "", loaded |-> Some(first)]

(***************************************************************************)
(* Step counts                                                             *)
(***************************************************************************)
\* a ceiling division in place of floor + 1
TrainStepsCeiling(size, batch_size) == (size + batch_size - 1) \div batch_size

\* ModelCenterNet.py 134-135: size // batch_size + 1
TrainSteps(size, batch_size) == (size \div batch_size) + 1

\* a guard that also skips when no step count is given
EvaluateSkipsNoneToo(steps) == steps = None \/ steps[1] = 0

\* ModelCenterNet.py 185: the guard that skips the evaluation
EvaluateSkips(steps) == steps # None /\ steps[1] = 0

(***************************************************************************)
(* Pipeline.py 38-57: the weights-folder check                             *)
(***************************************************************************)
Affirmative == {"y", "Y", "yes", "ok"}

\* Pipeline.py 39-40: the folder exists and lists at least one entry
MustPrompt(f) == f.exists /\ Cardinality(f.entries) # 0

\* a confirmation that ignores the case of the answer
UserOkAnyCase(text) == text \in {"y", "Y", "yes", "ok", "Yes", "YES", "OK", "Ok"}

\* Pipeline.py 50
UserOk(text) == text \in Affirmative

\* Pipeline.py 53: shutil.rmtree removes the folder with everything in it
Rmtree(f) == [exists |-> FALSE, entries |-> {}]

\* a check that runs on every training run, restoring or not
FreshTrainingAnyTrain(cfg) == cfg["train"]

\* Pipeline.py 93, 168, 302: the stage runs the check
FreshTraining(cfg) == cfg["train"] /\ ~cfg["restore_weights"]

(***************************************************************************)
(* ModelCenterNet.py: signatures, and the calls Pipeline.py makes          *)
(***************************************************************************)
\* ModelCenterNet.py 38: setup_callbacks(weights_log_path, batch_size, lr)
SetupCallbacksRequired == {"weights_log_path", "batch_size", "lr"}

\* ModelCenterNet.py 109-116: train(dataset, model, init_epoch, epochs, batch_size,
\* callbacks, augmentation=False)
TrainRequired == {"dataset", "model", "init_epoch", "epochs", "batch_size", "callbacks"}

TrainOptional == {"augmentation"}

\* Pipeline.py 216-217, 365-366: the keywords of the setup_callbacks call
PipelineSetupCallbacksArgs == {"weights_log_path", "batch_size"}

\* Pipeline.py 220-227, 368-375: the keywords of the train call
PipelineTrainArgs ==
    {"model", "init_epoch", "epochs", "training_set", "validation_set",
     "training_steps", "validation_steps", "callbacks"}

\* Pipeline.py 225-226: training_steps and validation_steps of run_detection
DetectionSteps(size, batch_size) == (size \div batch_size) + 1

\* Pipeline.py 232-233: evaluation_steps of run_detection
DetectionEvaluationSteps(size, batch_size) == (size \div batch_size) + 1

\* Pipeline.py 373-374: training_steps and validation_steps of run_classification
ClassificationSteps(size, batch_size) == (size \div batch_size) + 1

DetectionFitArgs(sz, batch_size) ==
    [steps_per_epoch |-> DetectionSteps(sz.ts, batch_size),
     validation_steps |-> DetectionSteps(sz.vs, batch_size)]

ClassificationFitArgs(sz, batch_size) ==
    [steps_per_epoch |-> ClassificationSteps(sz.ts, batch_size),
     validation_steps |-> ClassificationSteps(sz.vs, batch_size)]

\* ModelCenterNet.py 132-135 and 155-169: what model.fit / fit_generator is given
ModelTrainFitArgs(sz, batch_size) ==
    [steps_per_epoch |-> TrainSteps(sz.ts, batch_size),
     validation_steps |-> TrainSteps(sz.vs, batch_size)]

\* ModelCenterNet.py 183-189: the events of evaluate and its result
EvaluateEvents(steps) ==
    IF EvaluateSkips(steps) THEN <<"evaluate">> ELSE <<"evaluate", "model.evaluate">>

EvaluateResult(steps) == IF EvaluateSkips(steps) THEN None ELSE Some("metrics")

\* Pipeline.py 229-243: evaluate on the validation set, then index the metrics
\* (metrics[0] on None raises TypeError)
DetectionEvaluation(sz, batch_size) ==
    LET steps == Some(DetectionEvaluationSteps(sz.vs, batch_size))
    IN  [eval_steps |-> steps,
         events |-> EvaluateEvents(steps),
         error |-> IF EvaluateResult(steps) = None THEN "TypeError" ELSE ""]

\* Pipeline.py 212-243: the training block of run_detection
DetectionTrainBlock(sz, batch_size) ==
    IF ~Binds(SetupCallbacksRequired, {}, PipelineSetupCallbacksArgs)
    THEN [error |-> "TypeError", events |-> <<>>, fit |-> None, eval_steps |-> None]
    ELSE IF ~Binds(TrainRequired, TrainOptional, PipelineTrainArgs)
    THEN [error |-> "TypeError", events |-> <<"setup_callbacks">>,
          fit |-> None, eval_steps |-> None]
    ELSE LET ev == DetectionEvaluation(sz, batch_size)
         IN  [error |-> ev.error,
              events |-> <<"setup_callbacks", "fit">> \o ev.events,
              fit |-> Some(DetectionFitArgs(sz, batch_size)),
              eval_steps |-> ev.eval_steps]

\* Pipeline.py 362-375: the training block of run_classification
ClassificationTrainBlock(sz, batch_size) ==
    IF ~Binds(SetupCallbacksRequired, {}, PipelineSetupCallbacksArgs)
    THEN [error |-> "TypeError", events |-> <<>>, fit |-> None, eval_steps |-> None]
    ELSE IF ~Binds(TrainRequired, TrainOptional, PipelineTrainArgs)
    THEN [error |-> "TypeError", events |-> <<"setup_callbacks">>,
          fit |-> None, eval_steps |-> None]
    ELSE [error |-> "",
          events |-> <<"setup_callbacks", "fit">>,
          fit |-> Some(ClassificationFitArgs(sz, batch_size)),
          eval_steps |-> None]

(***************************************************************************)
(* The inputs                                                              *)
(***************************************************************************)
\* names of folder entries, as tokens
Ckpt05a == <<"weights", ".", "0", "5", "-", "0", ".", "2", "3", ".", "hdf5">>

Ckpt05b == <<"weights", ".", "0", "5", "-", "0", ".", "3", "0", ".", "hdf5">>

Ckpt5 == <<"weights", ".", "5", "-", "0", ".", "2", "3", ".", "hdf5">>

Ckpt12 == <<"weights", ".", "1", "2", "-", "0", ".", "1", "0", ".", "hdf5">>

Ckpt05h5 == <<"weights", ".", "0", "5", "-", "0", ".", "2", "3", ".", "h5">>

Tensorboard == <<"tensorboard">>

File(n) == [name |-> n, kind |-> "file"]

Dir(n) == [name |-> n, kind |-> "dir"]

Folder(es) == [exists |-> TRUE, entries |-> es]

\* what earlier runs may have left on disk
Folders ==
    { [exists |-> FALSE, entries |-> {}],
      Folder({}),
      Folder({File(Ckpt05a)}),
      Folder({File(Ckpt05a), Dir(Tensorboard), File(Ckpt12)}),
      Folder({File(Ckpt05a), Dir(Ckpt05b)}),
      Folder({File(Ckpt5), File(Ckpt05h5), Dir(Tensorboard)}) }

\* what input() may return
Inputs == {"y", "Y", "yes", "ok", "n", "", "Yes", "YES", "no"}

\* values of the 'decay' key: "0.01", "", "abc", "0"
DecayTexts == { <<"0", ".", "0", "1">>, <<>>, <<"a", "b", "c">>, <<"0">> }

Epochs == {5, 7}

BatchSizes == {8}

\* the dataset configuration of __init__: with and without a key the stage
\* configurations also hold
DatasetParams ==
    { [sample_submission |-> "sample_submission.csv"],
      [sample_submission |-> "sample_submission.csv", batch_size |-> 4] }

\* self.__test_list (Pipeline.py 34-36)
TestImages == {"test_1.jpg", "test_2.jpg"}

\* what PreprocessingDataset.generate_dataset may return
Vocabularies == { {}, {"a"}, {"a", "b"} }

\* (training set size, validation set size) the dataset builders may report
DatasetSizes == { [ts |-> 0, vs |-> 0], [ts |-> 16, vs |-> 8], [ts |-> 50, vs |-> 20] }

WithDecay(cfgs) == cfgs \cup {With(c, "decay", d) : c \in cfgs, d \in DecayTexts}

PreprocessingCfgs == [train : BOOLEAN, restore_weights : BOOLEAN]

HourglassCfgs == [train : BOOLEAN, restore_weights : BOOLEAN]

DetectionCfgs ==
    WithDecay([train : BOOLEAN, restore_weights : BOOLEAN,
               show_prediction_examples : BOOLEAN, predict_on_test : BOOLEAN,
               batch_size : BatchSizes, initial_epoch : Epochs])

ClassificationCfgs ==
    WithDecay([train : BOOLEAN, restore_weights : BOOLEAN,
               regenerate_crops_train : BOOLEAN, regenerate_crops_test : BOOLEAN,
               predict_on_test : BOOLEAN,
               batch_size : BatchSizes, initial_epoch : Epochs])

\* the steps argument of a direct ModelCenterNet.evaluate call
EvaluateArgs == {None} \cup {Some(n) : n \in 0..MaxEvalSteps}

(***************************************************************************)
(* The state machine                                                       *)
(***************************************************************************)
persistent == <<dataset_params, dict_cat, folder, proc, produced>>

\* Pipeline.py 23-36: the pipeline after construction, nothing called yet
Init ==
    /\ dataset_params \in DatasetParams
    /\ dict_cat = {}
    /\ folder \in Folders
    /\ proc = "alive"
    /\ stage = "none"
    /\ pc = "idle"
    /\ model_params = [train |-> FALSE, restore_weights |-> FALSE]
    /\ user_input = None
    /\ log = <<>>
    /\ outcome = "idle"
    /\ decay = None
    /\ sizes = None
    /\ test_list = "unset"
    /\ loaded = None
    /\ fit_call = None
    /\ eval_steps = None
    /\ n_category = None
    /\ ret = None
    /\ bbox_predictions = None
    /\ given_params = [train |-> FALSE, restore_weights |-> FALSE]
    /\ produced = None

\* the caller may start a call: the process lives and no call is running
CanCall == proc = "alive" /\ pc = "idle"

\* a call starts: fresh locals
Enter(op, first, cfg) ==
    /\ stage' = op
    /\ pc' = first
    /\ model_params' = cfg
    /\ user_input' = None
    /\ log' = <<>>
    /\ outcome' = "running"
    /\ decay' = None
    /\ sizes' = None
    /\ test_list' = "unset"
    /\ loaded' = None
    /\ fit_call' = None
    /\ eval_steps' = None
    /\ n_category' = None
    /\ ret' = None

\* the current call goes on to step `next`, having done `events`
Goto(next, events) ==
    /\ pc' = next
    /\ log' = log \o events
    /\ outcome' = outcome
    /\ UNCHANGED <<stage, model_params, given_params, proc, dataset_params>>

\* the current call ends with exception `err`, having done `events`
Raise(err, events) ==
    /\ pc' = "done"
    /\ log' = log \o events
    /\ outcome' = err
    /\ UNCHANGED <<stage, model_params, given_params, proc, dataset_params>>

\* the current call returns, having done `events`
Return(events) ==
    /\ pc' = "done"
    /\ log' = log \o events
    /\ outcome' = "returned"
    /\ UNCHANGED <<stage, model_params, given_params, proc, dataset_params>>

CheckedStages == {"run_preprocessing", "run_detection", "run_classification"}

\* the step after the weights-folder check
AfterCheck(op) == IF op = "run_preprocessing" THEN "dataset" ELSE "build"

\* Pipeline.py 89-90
run_preprocessing ==
    /\ CanCall
    /\ \E cfg \in PreprocessingCfgs :
          /\ Enter("run_preprocessing", "check", Update(cfg, dataset_params))
          /\ given_params' = cfg
    /\ bbox_predictions' = None
    /\ UNCHANGED persistent

\* Pipeline.py 164-165
run_detection ==
    /\ CanCall
    /\ \E cfg \in DetectionCfgs :
          /\ Enter("run_detection", "check", Update(cfg, dataset_params))
          /\ given_params' = cfg
    /\ bbox_predictions' = None
    /\ UNCHANGED persistent

\* Pipeline.py 298-299
run_classification ==
    /\ CanCall
    /\ \E cfg \in ClassificationCfgs :
          /\ Enter("run_classification", "check", Update(cfg, dataset_params))
          /\ given_params' = cfg
    /\ bbox_predictions' \in {None, Some(TestImages)}
    /\ UNCHANGED persistent

\* Pipeline.py 106-111
run_hourglass_detection ==
    /\ CanCall
    /\ \E cfg \in HourglassCfgs :
          /\ Enter("run_hourglass_detection", "hourglass", Update(cfg, dataset_params))
          /\ given_params' = cfg
    /\ bbox_predictions' = None
    /\ UNCHANGED persistent

\* Pipeline.py 92-94, 167-169, 301-303 with 38-57: the stage checks the weights
\* folder when it trains without restoring; the check prompts when the folder
\* holds something, deletes on an affirmative answer and exits otherwise
CheckWeights ==
    /\ proc = "alive"
    /\ pc = "check"
    /\ stage \in CheckedStages
    /\ IF FreshTraining(model_params) /\ MustPrompt(folder)
       THEN \E text \in Inputs :
               /\ user_input' = Some(text)
               /\ IF UserOk(text)
                  THEN /\ folder' = Rmtree(folder)
                       /\ pc' = AfterCheck(stage)
                       /\ log' = Append(log, "rmtree")
                       /\ UNCHANGED <<proc, outcome>>
                  ELSE /\ proc' = "exited"
                       /\ outcome' = "SystemExit"
                       /\ pc' = "done"
                       /\ UNCHANGED <<folder, log>>
       ELSE /\ pc' = AfterCheck(stage)
            /\ UNCHANGED <<user_input, folder, proc, outcome, log>>
    /\ UNCHANGED <<dataset_params, dict_cat, produced, stage, model_params, given_params,
                   decay, sizes, test_list,
                   loaded, fit_call, eval_steps, n_category, ret, bbox_predictions>>

\* Pipeline.py 96-104
PreprocessingDataset ==
    /\ proc = "alive"
    /\ pc = "dataset"
    /\ stage = "run_preprocessing"
    /\ \E vocabulary \in Vocabularies :
          /\ dict_cat' = vocabulary
          /\ produced' = Some(vocabulary)
    /\ ret' = Some("dataset_avg_size")
    /\ Return(<<"generate_dataset">>)
    /\ UNCHANGED <<folder, user_input, decay, sizes, test_list, loaded, fit_call,
                   eval_steps, n_category, bbox_predictions>>

\* Pipeline.py 113-132: the hourglass network is built and trained
HourglassTrain ==
    /\ proc = "alive"
    /\ pc = "hourglass"
    /\ stage = "run_hourglass_detection"
    /\ Return(<<"build_model", "train">>)
    /\ UNCHANGED <<dict_cat, produced, folder, user_input, decay, sizes, test_list, loaded, fit_call,
                   eval_steps, n_category, ret, bbox_predictions>>

\* ModelCenterNet.py 81-107 as a step of the current call: glob the folder, take
\* list_files[0] (glob gives no order: any match), assert, load
RestoreWeights(init_epoch, next) ==
    LET matches == GlobFolder(folder, init_epoch)
    IN  \E first \in (IF matches = {} THEN {Dir(<<>>)} ELSE matches) :
            LET r == RestoreOutcome(matches, first)
            IN  /\ loaded' = r.loaded
                /\ IF r.error = ""
                   THEN Goto(next, <<"restore_weights", "load_weights">>)
                   ELSE Raise(r.error, <<"restore_weights">>)

\* Pipeline.py 171-187: build the detection model, read the decay, compile
DetectionBuild ==
    /\ proc = "alive"
    /\ pc = "build"
    /\ stage = "run_detection"
    /\ n_category' = Some(1)
    /\ LET d == DecayOf(model_params)
       IN  /\ decay' = d.value
           /\ IF d.error = ""
              THEN Goto("restore", <<"build_model", "compile">>)
              ELSE Raise(d.error, <<"build_model">>)
    /\ UNCHANGED <<dict_cat, produced, folder, user_input, sizes, test_list, loaded, fit_call,
                   eval_steps, ret, bbox_predictions>>

\* Pipeline.py 189-193
DetectionRestore ==
    /\ proc = "alive"
    /\ pc = "restore"
    /\ stage = "run_detection"
    /\ IF model_params["restore_weights"]
       THEN RestoreWeights(model_params["initial_epoch"], "dataset")
       ELSE Goto("dataset", <<>>) /\ UNCHANGED loaded
    /\ UNCHANGED <<dict_cat, produced, folder, user_input, decay, sizes, test_list, fit_call,
                   eval_steps, n_category, ret, bbox_predictions>>

\* Pipeline.py 195-209: the test images are handed to the dataset only when
\* predict_on_test is set
DetectionDataset ==
    /\ proc = "alive"
    /\ pc = "dataset"
    /\ stage = "run_detection"
    /\ \E sz \in DatasetSizes : sizes' = Some(sz)
    /\ test_list' = IF model_params["predict_on_test"] THEN "paths" ELSE "none"
    /\ Goto("train", <<"generate_dataset">>)
    /\ UNCHANGED <<dict_cat, produced, folder, user_input, decay, loaded, fit_call, eval_steps,
                   n_category, ret, bbox_predictions>>

\* Pipeline.py 211-243
DetectionTrain ==
    /\ proc = "alive"
    /\ pc = "train"
    /\ stage = "run_detection"
    /\ IF model_params["train"]
       THEN LET b == DetectionTrainBlock(sizes[1], model_params["batch_size"])
            IN  /\ fit_call' = b.fit
                /\ eval_steps' = b.eval_steps
                /\ IF b.error = ""
                   THEN Goto("examples", b.events)
                   ELSE Raise(b.error, b.events)
       ELSE Goto("examples", <<>>) /\ UNCHANGED <<fit_call, eval_steps>>
    /\ UNCHANGED <<dict_cat, produced, folder, user_input, decay, sizes, test_list, loaded,
                   n_category, ret, bbox_predictions>>

\* Pipeline.py 245-263: inference on the first validation images
DetectionExamples ==
    /\ proc = "alive"
    /\ pc = "examples"
    /\ stage = "run_detection"
    /\ IF model_params["show_prediction_examples"]
       THEN Goto("predict", <<"predict_examples">>)
       ELSE Goto("predict", <<>>)
    /\ UNCHANGED <<dict_cat, produced, folder, user_input, decay, sizes, test_list, loaded, fit_call,
                   eval_steps, n_category, ret, bbox_predictions>>

\* Pipeline.py 265-280: test inference when asked for, and the return value
DetectionPredict ==
    /\ proc = "alive"
    /\ pc = "predict"
    /\ stage = "run_detection"
    /\ IF model_params["predict_on_test"]
       THEN /\ ret' = Some([train_list |-> "train_list", bbox |-> Some(TestImages)])
            /\ Return(<<"predict_test", "get_bb_boxes">>)
       ELSE /\ ret' = Some([train_list |-> "train_list", bbox |-> None])
            /\ Return(<<>>)
    /\ UNCHANGED <<dict_cat, produced, folder, user_input, decay, sizes, test_list, loaded, fit_call,
                   eval_steps, n_category, bbox_predictions>>

\* the category count of the detector, used for the classifier too
CategoryCountOne(vocabulary) == 1

\* Pipeline.py 309: n_category=len(self.__dict_cat)
CategoryCount(vocabulary) == Cardinality(vocabulary)

\* Pipeline.py 305-309: the classifier has one output per stored category
ClassificationBuild ==
    /\ proc = "alive"
    /\ pc = "build"
    /\ stage = "run_classification"
    /\ n_category' = Some(CategoryCount(dict_cat))
    /\ Goto("restore", <<"build_model">>)
    /\ UNCHANGED <<dict_cat, produced, folder, user_input, decay, sizes, test_list, loaded, fit_call,
                   eval_steps, ret, bbox_predictions>>

\* Pipeline.py 311-315
ClassificationRestore ==
    /\ proc = "alive"
    /\ pc = "restore"
    /\ stage = "run_classification"
    /\ IF model_params["restore_weights"]
       THEN RestoreWeights(model_params["initial_epoch"], "compile")
       ELSE Goto("compile", <<>>) /\ UNCHANGED loaded
    /\ UNCHANGED <<dict_cat, produced, folder, user_input, decay, sizes, test_list, fit_call,
                   eval_steps, n_category, ret, bbox_predictions>>

\* Pipeline.py 317-327
ClassificationCompile ==
    /\ proc = "alive"
    /\ pc = "compile"
    /\ stage = "run_classification"
    /\ LET d == DecayOf(model_params)
       IN  /\ decay' = d.value
           /\ IF d.error = ""
              THEN Goto("crops", <<"compile">>)
              ELSE Raise(d.error, <<>>)
    /\ UNCHANGED <<dict_cat, produced, folder, user_input, sizes, test_list, loaded, fit_call,
                   eval_steps, n_category, ret, bbox_predictions>>

\* test crops prepared whatever predict_on_test says
TestCropSourceUnguarded(cfg) ==
    IF cfg["regenerate_crops_test"] THEN "regenerated" ELSE "loaded"

\* Pipeline.py 343-348: the source of the test crops
TestCropSource(cfg) ==
    IF cfg["predict_on_test"]
    THEN IF cfg["regenerate_crops_test"] THEN "regenerated" ELSE "loaded"
    ELSE "none"

\* Pipeline.py 329-348
ClassificationCrops ==
    /\ proc = "alive"
    /\ pc = "crops"
    /\ stage = "run_classification"
    /\ test_list' = TestCropSource(model_params)
    /\ Goto("dataset",
            <<IF model_params["regenerate_crops_train"]
              THEN "regenerate_crops_train" ELSE "load_crops_train">>
            \o (IF TestCropSource(model_params) = "regenerated"
                THEN <<"regenerate_crops_test">>
                ELSE IF TestCropSource(model_params) = "loaded"
                     THEN <<"load_crops_test">> ELSE <<>>))
    /\ UNCHANGED <<dict_cat, produced, folder, user_input, decay, sizes, loaded, fit_call,
                   eval_steps, n_category, ret, bbox_predictions>>

\* Pipeline.py 352-360
ClassificationDataset ==
    /\ proc = "alive"
    /\ pc = "dataset"
    /\ stage = "run_classification"
    /\ \E sz \in DatasetSizes : sizes' = Some(sz)
    /\ Goto("train", <<"generate_dataset">>)
    /\ UNCHANGED <<dict_cat, produced, folder, user_input, decay, test_list, loaded, fit_call,
                   eval_steps, n_category, ret, bbox_predictions>>

\* Pipeline.py 362-375
ClassificationTrain ==
    /\ proc = "alive"
    /\ pc = "train"
    /\ stage = "run_classification"
    /\ IF model_params["train"]
       THEN LET b == ClassificationTrainBlock(sizes[1], model_params["batch_size"])
            IN  /\ fit_call' = b.fit
                /\ IF b.error = ""
                   THEN Goto("predict", b.events)
                   ELSE Raise(b.error, b.events)
       ELSE Goto("predict", <<>>) /\ UNCHANGED fit_call
    /\ UNCHANGED <<dict_cat, produced, folder, user_input, decay, sizes, test_list, loaded,
                   eval_steps, n_category, ret, bbox_predictions>>

\* Pipeline.py 377-385
ClassificationPredict ==
    /\ proc = "alive"
    /\ pc = "predict"
    /\ stage = "run_classification"
    /\ IF model_params["predict_on_test"]
       THEN /\ ret' = Some("predictions")
            /\ Return(<<"predict_test">>)
       ELSE /\ ret' = None
            /\ Return(<<>>)
    /\ UNCHANGED <<dict_cat, produced, folder, user_input, decay, sizes, test_list, loaded, fit_call,
                   eval_steps, n_category, bbox_predictions>>

(***************************************************************************)
(* ModelCenterNet called directly                                          *)
(***************************************************************************)
\* ModelCenterNet.py 81-107
restore_weights ==
    /\ CanCall
    /\ \E init_epoch \in Epochs :
          LET matches == GlobFolder(folder, init_epoch)
          IN  \E first \in (IF matches = {} THEN {Dir(<<>>)} ELSE matches) :
                 LET r == RestoreOutcome(matches, first)
                 IN  /\ stage' = "restore_weights"
                     /\ model_params' = [initial_epoch |-> init_epoch]
                     /\ given_params' = [initial_epoch |-> init_epoch]
                     /\ loaded' = r.loaded
                     /\ log' = IF r.error = "" THEN <<"restore_weights", "load_weights">>
                                               ELSE <<"restore_weights">>
                     /\ outcome' = IF r.error = "" THEN "returned" ELSE r.error
    /\ pc' = "done"
    /\ user_input' = None
    /\ decay' = None
    /\ sizes' = None
    /\ test_list' = "unset"
    /\ fit_call' = None
    /\ eval_steps' = None
    /\ n_category' = None
    /\ ret' = None
    /\ bbox_predictions' = None
    /\ UNCHANGED persistent

\* ModelCenterNet.py 109-171
train ==
    /\ CanCall
    /\ \E sz \in DatasetSizes, batch_size \in BatchSizes \cup {3}, augmentation \in BOOLEAN :
          /\ stage' = "train"
          /\ model_params' = [batch_size |-> batch_size, augmentation |-> augmentation]
          /\ given_params' = [batch_size |-> batch_size, augmentation |-> augmentation]
          /\ sizes' = Some(sz)
          /\ fit_call' = Some(ModelTrainFitArgs(sz, batch_size))
          /\ log' = <<IF augmentation THEN "fit_generator" ELSE "fit">>
    /\ outcome' = "returned"
    /\ pc' = "done"
    /\ user_input' = None
    /\ decay' = None
    /\ test_list' = "unset"
    /\ loaded' = None
    /\ eval_steps' = None
    /\ n_category' = None
    /\ ret' = None
    /\ bbox_predictions' = None
    /\ UNCHANGED persistent

\* ModelCenterNet.py 173-189
evaluate ==
    /\ CanCall
    /\ \E steps \in EvaluateArgs :
          /\ stage' = "evaluate"
          /\ model_params' = [evaluation_steps |-> steps]
          /\ given_params' = [evaluation_steps |-> steps]
          /\ eval_steps' = steps
          /\ ret' = EvaluateResult(steps)
          /\ log' = EvaluateEvents(steps)
    /\ outcome' = "returned"
    /\ pc' = "done"
    /\ user_input' = None
    /\ decay' = None
    /\ sizes' = None
    /\ test_list' = "unset"
    /\ loaded' = None
    /\ fit_call' = None
    /\ n_category' = None
    /\ bbox_predictions' = None
    /\ UNCHANGED persistent

\* the call has ended and control is back with the caller: the locals of the call
\* are gone, the pipeline's fields and the folder stay
Resume ==
    /\ proc = "alive"
    /\ pc = "done"
    /\ stage' = "none"
    /\ pc' = "idle"
    /\ model_params' = [train |-> FALSE, restore_weights |-> FALSE]
    /\ given_params' = [train |-> FALSE, restore_weights |-> FALSE]
    /\ user_input' = None
    /\ log' = <<>>
    /\ outcome' = "idle"
    /\ decay' = None
    /\ sizes' = None
    /\ test_list' = "unset"
    /\ loaded' = None
    /\ fit_call' = None
    /\ eval_steps' = None
    /\ n_category' = None
    /\ ret' = None
    /\ bbox_predictions' = None
    /\ UNCHANGED persistent

Next ==
    \/ Resume
    \/ run_preprocessing
    \/ run_hourglass_detection
    \/ run_detection
    \/ run_classification
    \/ CheckWeights
    \/ PreprocessingDataset
    \/ HourglassTrain
    \/ DetectionBuild
    \/ DetectionRestore
    \/ DetectionDataset
    \/ DetectionTrain
    \/ DetectionExamples
    \/ DetectionPredict
    \/ ClassificationBuild
    \/ ClassificationRestore
    \/ ClassificationCompile
    \/ ClassificationCrops
    \/ ClassificationDataset
    \/ ClassificationTrain
    \/ ClassificationPredict
    \/ restore_weights
    \/ train
    \/ evaluate

Spec == Init /\ [][Next]_vars

(***************************************************************************)
(* The step formulas applied to drawn sizes.  In Spec the training blocks  *)
(* of the stages end at the setup_callbacks call, so their step counts are *)
(* computed here, for every dataset size and batch size within the bounds. *)
(***************************************************************************)
StepsInit ==
    /\ dataset_params = [sample_submission |-> "sample_submission.csv"]
    /\ dict_cat = {}
    /\ folder = Folder({})
    /\ proc = "alive"
    /\ stage = "none"
    /\ pc = "steps"
    /\ \E batch_size \in 1..MaxBatch :
          /\ model_params = [batch_size |-> batch_size]
          /\ given_params = [batch_size |-> batch_size]
    /\ produced = None
    /\ user_input = None
    /\ log = <<>>
    /\ outcome = "running"
    /\ decay = None
    /\ \E ts \in 0..MaxSize, vs \in 0..MaxSize : sizes = Some([ts |-> ts, vs |-> vs])
    /\ test_list = "unset"
    /\ loaded = None
    /\ fit_call = None
    /\ eval_steps = None
    /\ n_category = None
    /\ ret = None
    /\ bbox_predictions = None

\* Pipeline.py 220-243: the arguments of train and evaluate in run_detection
DetectionStepsApplied ==
    /\ pc = "steps"
    /\ stage' = "run_detection"
    /\ fit_call' = Some(DetectionFitArgs(sizes[1], model_params["batch_size"]))
    /\ LET ev == DetectionEvaluation(sizes[1], model_params["batch_size"])
       IN  /\ eval_steps' = ev.eval_steps
           /\ log' = <<"fit">> \o ev.events
           /\ outcome' = IF ev.error = "" THEN "returned" ELSE ev.error
    /\ pc' = "done"
    /\ UNCHANGED <<dataset_params, dict_cat, produced, folder, proc, model_params, given_params,
                   user_input, decay,
                   sizes, test_list, loaded, n_category, ret, bbox_predictions>>

\* Pipeline.py 368-375: the arguments of train in run_classification
ClassificationStepsApplied ==
    /\ pc = "steps"
    /\ stage' = "run_classification"
    /\ fit_call' = Some(ClassificationFitArgs(sizes[1], model_params["batch_size"]))
    /\ log' = <<"fit">>
    /\ outcome' = "returned"
    /\ pc' = "done"
    /\ UNCHANGED <<dataset_params, dict_cat, produced, folder, proc, model_params, given_params,
                   user_input, decay,
                   sizes, test_list, loaded, eval_steps, n_category, ret, bbox_predictions>>

\* ModelCenterNet.py 132-135, 163-169: the steps train hands to model.fit
TrainStepsApplied ==
    /\ pc = "steps"
    /\ stage' = "train"
    /\ fit_call' = Some(ModelTrainFitArgs(sizes[1], model_params["batch_size"]))
    /\ log' = <<"fit">>
    /\ outcome' = "returned"
    /\ pc' = "done"
    /\ UNCHANGED <<dataset_params, dict_cat, produced, folder, proc, model_params, given_params,
                   user_input, decay,
                   sizes, test_list, loaded, eval_steps, n_category, ret, bbox_predictions>>

StepsNext ==
    \/ DetectionStepsApplied
    \/ ClassificationStepsApplied
    \/ TrainStepsApplied

StepsSpec == StepsInit /\ [][StepsNext]_vars

(***************************************************************************)
(* Properties                                                              *)
(***************************************************************************)
\* the events of the current call
Events == {log[i] : i \in 1..Len(log)}

Count(event) == Cardinality({i \in 1..Len(log) : log[i] = event})

HoldsFiles(f) == f.exists /\ f.entries # {}

\* the call has come to its end
Ended == pc = "done"

\* C1: in run_preprocessing, run_detection and run_classification with train and
\* without restore_weights, when the folder holds something and the text read is
\* none of y, Y, yes, ok, the process exits at once: the folder is as it was, the
\* call has built, restored, trained, evaluated and predicted nothing, and no step
\* follows the exit.
C1_RefusalAborts ==
    [][ /\ ( /\ pc = "check"
             /\ stage \in {"run_preprocessing", "run_detection", "run_classification"}
             /\ model_params["train"] /\ ~model_params["restore_weights"]
             /\ HoldsFiles(folder)
             /\ user_input' # None
             /\ user_input'[1] \notin {"y", "Y", "yes", "ok"} )
           => ( /\ folder' = folder
                /\ proc' = "exited"
                /\ outcome' = "SystemExit"
                /\ log' = <<>> )
        /\ (proc = "exited" => UNCHANGED vars)
      ]_vars

C1_Witness ==
    /\ proc = "exited"
    /\ stage = "run_classification"
    /\ user_input = Some("Yes")
    /\ HoldsFiles(folder)
    /\ log = <<>>

\* C2 (as claimed): in the three checked stages with train and without
\* restore_weights, after an affirmative answer the folder holds nothing any more
\* and the stage goes on with its remaining steps: the dataset is built and, in
\* run_detection and run_classification, the model is built and training is run.
\* (A decay is configured, so that the decay lookup is not what stops the stage.)
C2_Original ==
    ( /\ Ended
      /\ stage \in {"run_preprocessing", "run_detection", "run_classification"}
      /\ user_input # None
      /\ user_input[1] \in {"y", "Y", "yes", "ok"}
      /\ (stage # "run_preprocessing" => "decay" \in DOMAIN model_params) )
    => ( /\ ~HoldsFiles(folder)
         /\ proc = "alive"
         /\ "generate_dataset" \in Events
         /\ stage # "run_preprocessing" => {"build_model", "fit"} \subseteq Events )

\* C3 (as claimed): whenever a stage has invoked training in a call with train and
\* without restore_weights, the weights folder is absent or empty.
C3_Original ==
    ( /\ stage \in {"run_preprocessing", "run_hourglass_detection", "run_detection",
                    "run_classification"}
      /\ model_params["train"] /\ ~model_params["restore_weights"]
      /\ Events \cap {"fit", "train"} # {} )
    => ~HoldsFiles(folder)

\* steps is floor(size / batch_size) + 1, said without division
FloorPlusOne(steps, size, batch_size) ==
    /\ (steps - 1) * batch_size <= size
    /\ size < steps * batch_size

\* C4: the training, validation and evaluation steps of run_detection,
\* run_classification and ModelCenterNet.train are floor(size / batch_size) + 1:
\* 1 for size 0, 2 for size = batch_size, 4 for size = 3 * batch_size, one more
\* than the ceiling whenever batch_size divides size.
C4_StepsFloorPlusOne ==
    fit_call # None =>
        LET b == model_params["batch_size"]
            sz == sizes[1]
            fit == fit_call[1]
        IN  /\ FloorPlusOne(fit.steps_per_epoch, sz.ts, b)
            /\ FloorPlusOne(fit.validation_steps, sz.vs, b)
            /\ stage = "run_detection" =>
                  eval_steps # None /\ FloorPlusOne(eval_steps[1], sz.vs, b)
            /\ sz.ts = 0 => fit.steps_per_epoch = 1
            /\ sz.ts = b => fit.steps_per_epoch = 2
            /\ sz.ts = 3 * b => fit.steps_per_epoch = 4
            /\ sz.vs = 0 => fit.validation_steps = 1
            /\ sz.vs = b => fit.validation_steps = 2
            /\ sz.vs = 3 * b => fit.validation_steps = 4
            /\ sz.ts % b = 0 => fit.steps_per_epoch * b = sz.ts + b

C4_Witness ==
    /\ stage = "run_detection"
    /\ fit_call # None
    /\ model_params["batch_size"] = 8
    /\ sizes[1].ts = 24 /\ fit_call[1].steps_per_epoch = 4
    /\ sizes[1].vs = 0 /\ fit_call[1].validation_steps = 1
    /\ eval_steps = Some(1)

\* the fraction d equals n/m
IsFraction(d, n, m) == d.num * m = n * d.den

\* C5 (as claimed): in run_detection and run_classification no error of the decay
\* lookup leaves the stage, and once the model is compiled the decay is the number
\* the 'decay' text spells ("0.01" gives 1/100), and 0 when the text is "" or
\* "abc" or the key is missing.
C5_Original ==
    stage \in {"run_detection", "run_classification"} =>
        /\ outcome \notin {"KeyError", "ValueError"}
        /\ "compile" \in Events => decay # None
        /\ decay # None =>
              /\ "decay" \notin DOMAIN model_params => IsFraction(decay[1], 0, 1)
              /\ "decay" \in DOMAIN model_params =>
                    /\ model_params["decay"] = <<"0", ".", "0", "1">>
                          => IsFraction(decay[1], 1, 100)
                    /\ model_params["decay"] \in {<<>>, <<"a", "b", "c">>}
                          => IsFraction(decay[1], 0, 1)

\* name is weights.<EE>-<anything>.hdf5, EE the two digits of init_epoch
CheckpointNameOf(name, init_epoch) ==
    /\ Len(name) >= 7
    /\ name[1] = "weights" /\ name[2] = "."
    /\ name[3] = Digits[(init_epoch \div 10) + 1]
    /\ name[4] = Digits[(init_epoch % 10) + 1]
    /\ name[5] = "-"
    /\ name[Len(name) - 1] = "." /\ name[Len(name)] = "hdf5"

\* C6: restore_weights loads only a regular file of the folder named
\* weights.<EE>-<anything>.hdf5 for the two-digit init_epoch (the folder holding
\* only weights.05-0.23.hdf5 and init_epoch 5: that file); when no name of the
\* folder matches, it ends with an assertion error and nothing is loaded.
C6_RestoreByEpoch ==
    "restore_weights" \in Events =>
        LET e == model_params["initial_epoch"]
        IN  /\ loaded # None =>
                  /\ loaded[1] \in folder.entries
                  /\ loaded[1].kind = "file"
                  /\ CheckpointNameOf(loaded[1].name, e)
                  /\ "load_weights" \in Events
            /\ (~folder.exists \/ \A f \in folder.entries : ~CheckpointNameOf(f.name, e)) =>
                  /\ outcome = "AssertionError"
                  /\ loaded = None
                  /\ "load_weights" \notin Events
            /\ (folder = Folder({File(Ckpt05a)}) /\ e = 5) => loaded = Some(File(Ckpt05a))
            /\ (folder = Folder({File(Ckpt05a)}) /\ e = 7) => outcome = "AssertionError"

C6_Witness ==
    /\ stage = "restore_weights"
    /\ model_params["initial_epoch"] = 5
    /\ folder = Folder({File(Ckpt05a)})
    /\ loaded = Some(File(Ckpt05a))
    /\ outcome = "returned"

C8_Original ==
    ( /\ Ended
      /\ stage = "run_detection"
      /\ model_params["train"] /\ ~model_params["restore_weights"]
      /\ model_params["predict_on_test"]
      /\ model_params["batch_size"] = 8
      /\ "decay" \in DOMAIN model_params
      /\ folder = Folder({})
      /\ sizes # None /\ sizes[1].vs = 20 )
    => ( /\ user_input = None
         /\ outcome = "returned"
         /\ fit_call # None /\ fit_call[1].validation_steps = 3
         /\ "predict_test" \in Events
         /\ ret # None /\ ret[1].bbox = Some(TestImages) )

\* C9: ModelCenterNet.evaluate with evaluation_steps 0 returns None and does not
\* call model.evaluate; with any other step count, None included, it calls
\* model.evaluate once and returns what that returns.
C9_EvaluateSkipsOnZero ==
    stage = "evaluate" =>
        LET steps == model_params["evaluation_steps"]
        IN  /\ steps = Some(0) => (ret = None /\ Count("model.evaluate") = 0)
            /\ steps # Some(0) => (ret = Some("metrics") /\ Count("model.evaluate") = 1)
            /\ outcome = "returned"

C9_Witness ==
    /\ stage = "evaluate"
    /\ model_params["evaluation_steps"] = Some(0)
    /\ ret = None
    /\ log = <<"evaluate">>

\* C10 (as claimed): run_detection with train and an empty validation set hands 0
\* steps to evaluate, model.evaluate is not called on the empty set, and the stage
\* does not fail on the way to the end of its training block.
C10_Original ==
    ( /\ stage = "run_detection"
      /\ model_params["train"]
      /\ sizes # None /\ sizes[1].vs = 0
      /\ pc \in {"examples", "predict", "done"} )
    => ( /\ eval_steps = Some(0)
         /\ "model.evaluate" \notin Events
         /\ outcome \in {"running", "returned"} )

\* C11 (as claimed): when run_classification is given no bbox_predictions, it never
\* regenerates the test crops from them: the test crops are loaded from the cache
\* or not used.
C11_Original ==
    ( /\ stage = "run_classification"
      /\ bbox_predictions = None )
    => ( /\ "regenerate_crops_test" \notin Events
         /\ test_list \in {"unset", "none", "loaded"} )

Stages ==
    {"run_preprocessing", "run_hourglass_detection", "run_detection", "run_classification"}

\* C12 (as claimed): in a stage the effective configuration holds every key of the
\* stage configuration and of the dataset configuration, with the stage's value for
\* a key of both, and the stored dataset configuration is one the pipeline was
\* built with.
C12_Original ==
    stage \in Stages =>
        /\ DOMAIN model_params = (DOMAIN given_params) \cup (DOMAIN dataset_params)
        /\ \A k \in DOMAIN given_params : model_params[k] = given_params[k]
        /\ \A k \in (DOMAIN dataset_params) \ (DOMAIN given_params) :
              model_params[k] = dataset_params[k]
        /\ dataset_params \in DatasetParams

\* the flagged actions of run_detection, as they appear in the log
IsFlaggedAction(event) ==
    event \in {"load_weights", "fit", "model.evaluate", "predict_examples", "predict_test"}

\* what the four flags of cfg ask for, in the order of the stage
FlaggedActions(cfg) ==
    (IF cfg["restore_weights"] THEN <<"load_weights">> ELSE <<>>)
    \o (IF cfg["train"] THEN <<"fit", "model.evaluate">> ELSE <<>>)
    \o (IF cfg["show_prediction_examples"] THEN <<"predict_examples">> ELSE <<>>)
    \o (IF cfg["predict_on_test"] THEN <<"predict_test">> ELSE <<>>)

\* C13 (as claimed): for each of the 16 settings of train, restore_weights,
\* show_prediction_examples and predict_on_test, a run_detection call that got past
\* the weights-folder check and found its checkpoint (and has a decay configured)
\* returns, having restored, trained and evaluated, shown examples and predicted
\* the test set exactly as flagged, in this order.
C13_Original ==
    ( /\ Ended
      /\ stage = "run_detection"
      /\ "decay" \in DOMAIN model_params
      /\ outcome \notin {"SystemExit", "AssertionError"} )
    => ( /\ outcome = "returned"
         /\ SelectSeq(log, IsFlaggedAction) = FlaggedActions(model_params) )

\* C14: only run_preprocessing writes the stored vocabulary (run_detection,
\* run_hourglass_detection and run_classification leave it as it is), and the
\* classifier of run_classification is built with as many categories as the
\* vocabulary the last run_preprocessing produced, 0 when there was none.
C14_VocabularyFromPreprocessing ==
    [][ /\ dict_cat' # dict_cat => (stage = "run_preprocessing" /\ stage' = stage)
        /\ stage \in {"run_hourglass_detection", "run_detection", "run_classification"}
              => dict_cat' = dict_cat
        /\ (stage' = "run_classification" /\ n_category' # None)
              => n_category'[1] = IF produced' = None THEN 0
                                  ELSE Cardinality(produced'[1])
      ]_vars

C14_Witness ==
    /\ stage = "run_classification"
    /\ outcome = "returned"
    /\ produced = Some({"a", "b"})
    /\ n_category = Some(2)

\* C15: in run_preprocessing, run_detection and run_classification, when train is
\* false or restore_weights is true, or the weights folder is absent or empty, the
\* check reads nothing from standard input and leaves the folder as it is; a call
\* with restore_weights never changes the folder.
C15_NoPromptNoDelete ==
    [][ /\ ( /\ pc = "check"
             /\ stage \in {"run_preprocessing", "run_detection", "run_classification"}
             /\ \/ ~model_params["train"]
                \/ model_params["restore_weights"]
                \/ ~folder.exists
                \/ folder.entries = {} )
           => ( /\ user_input' = None
                /\ folder' = folder
                /\ proc' = "alive"
                /\ pc' # "done"
                /\ log' = log )
        /\ ( /\ stage \in {"run_preprocessing", "run_detection", "run_classification"}
             /\ model_params["restore_weights"] )
           => ( folder' = folder /\ user_input' = None )
      ]_vars

C15_Witness ==
    /\ stage = "run_classification"
    /\ model_params["train"] /\ model_params["restore_weights"]
    /\ HoldsFiles(folder)
    /\ user_input = None
    /\ loaded # None
    /\ "generate_dataset" \in Events

====
